---- MODULE Spec2Model ----
(***************************************************************************)
(* A model of the omni message layer: the signed request envelope          *)
(* (omni/src/message.rs), the OmniError taxonomy                           *)
(* (omni/src/message/error.rs) and the ledger's Merk storage backend       *)
(* (many-ledger/src/storage/merk.rs).                                      *)
(*                                                                         *)
(* Option<T> is modelled as a sequence: None is << >> and Some(x) is <<x>>.*)
(* Byte strings are sequences of small integers.                           *)
(***************************************************************************)
EXTENDS Integers, Sequences, FiniteSets, TLC

VARIABLES
    pc,        \* position of the envelope scenario: start, built, encfail, decoded
    origin,    \* how sign1 came to be: none, encoded, sig_altered, payload_altered, forged
    encReq,    \* Option: the request given to encode_cose_sign1_from_request
    encId,     \* Option: the identity given to it
    encKey,    \* Option: the key pair given to it
    encErr,    \* Option: the Err(String) it returned
    sign1,     \* Option: the envelope (CoseSign1) at hand
    expected,  \* the `to` argument of decode_request_from_cose_sign1
    verified,  \* Option: what CoseSign1RequestMessage::verify returned
    result,    \* Option: what decode_request_from_cose_sign1 returned
    epc,       \* position of the error scenario: idle, made, displayed, encoded, decoded
    error,     \* Option: the OmniError at hand
    rendered,  \* Option: what its Display wrote
    wire,      \* Option: the CBOR items its Encode wrote
    received,  \* Option: what Decode made of them
    lpc,       \* position of the code lookup: idle, looked, back
    lookupIn,  \* the u32 given to OmniErrorCode::from
    lookupCode,\* Option: the OmniErrorCode it returned
    lookupBack,\* Option: that code converted into a u32 again
    merk,      \* the persistent store: committed key -> value
    stage,     \* the staging buffer: staged key -> value
    lastOp,    \* the last storage operation: none, put, commit, commit_failed, iter
    prior,     \* the store and the stage as they were before that operation
    nOps,      \* number of put and commit calls so far
    iterArgs,  \* Option: the start bound, end bound and direction given to iter
    iterOut    \* Option: the keys iter yielded, in order

envVars == <<pc, origin, encReq, encId, encKey, encErr, sign1, expected, verified, result>>

errVars == <<epc, error, rendered, wire, received>>

lookVars == <<lpc, lookupIn, lookupCode, lookupBack>>

storeVars == <<merk, stage, lastOp, prior, nOps, iterArgs, iterOut>>

vars == <<envVars, errVars, lookVars, storeVars>>

None == << >>
Some(x) == <<x>>

\* BTreeMap::new(), and a Merk with no entry: a map from byte strings.
EmptyMap == [k \in {} |-> << >>]

----------------------------------------------------------------------------
(* Bounds                                                                  *)

\* Number of Ed25519 key pairs in play.
NKeys == 2
\* Longest keyset an attacker-built envelope embeds.
MaxKeyset == 1
\* Number of signature bytes an alteration may hit.
SigBytes == 2
\* Longest message template drawn over the template alphabet.
MaxTemplateLen == 5
\* How far around each range boundary the looked-up integers reach.
LookupSpan == 9
\* Longest storage key, in bytes.
MaxKeyLen == 2
\* Most put and commit calls made on one storage backend.
MaxOps == 3

Keys == 1..NKeys

----------------------------------------------------------------------------
(* ring: key pairs and Ed25519, as an ideal signature scheme               *)

\* kp.public_key(): the public key bytes of key pair kp.
PublicKeyOf(kp) == 10 + kp

\* kp.sign(content): byte `flip` of the signature is altered when flip # 0.
Sign(kp, content) == [key |-> PublicKeyOf(kp), content |-> content, flip |-> 0]

\* key.verify(content, sig).is_ok()
RingVerify(key, content, sig) ==
    /\ sig.flip = 0
    /\ sig.key = key
    /\ sig.content = content

----------------------------------------------------------------------------
(* Identity                                                                *)

\* The one-way hash that turns a public key into an address.
Hash(x) == 100 + x

Anonymous == [tag |-> "anonymous", v |-> 0]
PublicKeyId(x) == [tag |-> "public_key", v |-> x]
AddressableId(h) == [tag |-> "addressable", v |-> h]

is_anonymous(id) == id.tag = "anonymous"
is_public_key(id) == id.tag = "public_key"
is_addressable(id) == id.tag = "addressable"

\* Identity::to_vec: a variant tag, then the payload bytes.
to_vec(id) ==
    IF is_anonymous(id) THEN <<0>>
    ELSE IF is_public_key(id) THEN <<1, id.v>>
    ELSE <<2, id.v>>

\* Identity::from_bytes: Option, None standing for the Err of a malformed identity.
Identity_from_bytes(b) ==
    IF b = <<0>> THEN Some(Anonymous)
    ELSE IF Len(b) = 2 /\ b[1] = 1 THEN Some(PublicKeyId(b[2]))
    ELSE IF Len(b) = 2 /\ b[1] = 2 THEN Some(AddressableId(b[2]))
    ELSE None

\* Identity::to_string: the textual form of an identity.
to_string(id) == <<id.tag, ToString(id.v)>>

\* A CoseKey of a keyset: its kid label, whether it is an Ed25519 key, and
\* its x parameter (the public key bytes), which may be missing.
CoseKey(kid, x) == [kid |-> kid, ed25519 |-> TRUE, x |-> Some(x)]

\* Identity::public_key(&cose_key) and Identity::addressable(&cose_key).
\* Only called on keys whose x is present.
public_key(cose_key) == PublicKeyId(cose_key.x[1])
addressable(cose_key) == AddressableId(Hash(cose_key.x[1]))

\* Identity::matches_key(&Option<CoseKey>)
matches_key(id, maybe_key) ==
    IF is_anonymous(id) THEN maybe_key = None
    ELSE IF maybe_key = None THEN FALSE
    ELSE IF is_public_key(id) THEN public_key(maybe_key[1]) = id
    ELSE addressable(maybe_key[1]) = id

Identities ==
    {Anonymous} \cup {PublicKeyId(PublicKeyOf(k)) : k \in Keys}
                \cup {AddressableId(Hash(PublicKeyOf(k))) : k \in Keys}

\* unwrap_or_default() on an Option<Identity>: the default identity is Anonymous.
unwrap_or_default(opt) == IF opt = None THEN Anonymous ELSE opt[1]

----------------------------------------------------------------------------
(* RequestMessage and its binary form                                      *)

RequestMessage(from, to) == [from |-> from, to |-> to]

\* RequestMessage::to_bytes: count-prefixed fields, an absent `from` having
\* count 0.
RequestMessage_to_bytes(m) ==
    LET f == IF m.from = None THEN << >> ELSE to_vec(m.from[1])
        t == to_vec(m.to)
    IN  <<Len(f)>> \o f \o <<Len(t)>> \o t

\* RequestMessage::from_bytes: Option, None standing for a decode error.
RequestMessage_from_bytes(b) ==
    IF Len(b) < 1 \/ Len(b) < b[1] + 2 THEN None
    ELSE LET n == b[1]
             m == b[n + 2]
             f == SubSeq(b, 2, n + 1)
             t == SubSeq(b, n + 3, Len(b))
         IN  IF Len(b) # n + m + 2 THEN None
             ELSE IF Identity_from_bytes(t) = None THEN None
             ELSE IF n = 0 THEN Some(RequestMessage(None, Identity_from_bytes(t)[1]))
             ELSE IF Identity_from_bytes(f) = None THEN None
             ELSE Some(RequestMessage(Identity_from_bytes(f), Identity_from_bytes(t)[1]))

----------------------------------------------------------------------------
(* OmniError: the registry of error.rs                                     *)

RESERVED_OMNI_ERROR_CODE == 10000

\* An OmniErrorCode: a registered name, or ApplicationSpecific(x).
Code(name) == [name |-> name, x |-> 0]
ApplicationSpecific(x) == [name |-> "ApplicationSpecific", x |-> x]

NoFields == [n \in {} |-> << >>]

\* The constructors the omni_error! macro generates: no message, the
\* arguments as fields under their own names.
OmniErrorOf(name, fields) == [code |-> Code(name), message |-> None, fields |-> fields]

could_not_verify_signature == OmniErrorOf("CouldNotVerifySignature", NoFields)
empty_envelope == OmniErrorOf("EmptyEnvelope", NoFields)
internal_server_error == OmniErrorOf("InternalServerError", NoFields)
invalid_from_identity == OmniErrorOf("InvalidFromIdentity", NoFields)
unknown_destination_Swapped(to, this) ==
    OmniErrorOf("UnknownDestination",
                [n \in {<<"to">>, <<"this">>} |-> IF n = <<"to">> THEN this ELSE to])

unknown_destination(to, this) ==
    OmniErrorOf("UnknownDestination",
                [n \in {<<"to">>, <<"this">>} |-> IF n = <<"to">> THEN to ELSE this])

----------------------------------------------------------------------------
(* The envelope: CoseSign1 with its protected headers                      *)

\* The custom "keyset" header: absent, present but not decodable as a
\* CoseKeySet (not a byte string, or bytes that do not parse), or a keyset.
NoKeyset == [kind |-> "absent", keys |-> << >>]
BadKeyset == [kind |-> "undecodable", keys |-> << >>]
Keyset(keys) == [kind |-> "keyset", keys |-> keys]

ProtectedHeaders(kid, keyset) ==
    [alg |-> "EdDSA", kid |-> kid, content_type |-> "application/cbor", keyset |-> keyset]

CoseSign1(protected, payload, signature) ==
    [protected |-> protected, payload |-> payload, signature |-> signature]

\* A signature that covers the protected headers alone.
SigContent_HeadersOnly(cose) == <<cose.protected>>

\* What CoseSign1::sign_with and verify_with hand to the signer and the
\* verifier: the protected headers and the payload.
SigContent(cose) == <<cose.protected, cose.payload>>

\* CoseSign1::verify_with(f): Option<bool>, None standing for its Err (no
\* signature to check).
verify_with(cose, key) ==
    IF cose.signature = None THEN None
    ELSE Some(RingVerify(key, SigContent(cose), cose.signature[1]))

\* CoseSign1RequestMessage::get_keyset
get_keyset(cose) ==
    IF cose.protected.keyset.kind = "keyset" THEN Some(cose.protected.keyset.keys)
    ELSE None

\* CoseKeySet::get_kid: the first key labelled kid.
get_kid(keys, kid) ==
    LET hits == {i \in 1..Len(keys) : keys[i].kid = kid}
    IN  IF hits = {} THEN None
        ELSE Some(keys[CHOOSE i \in hits : \A j \in hits : i <= j])

\* A lookup that trusts the kid label of a key.
get_public_key_for_identity_ByLabel(cose, id) ==
    IF is_anonymous(id) THEN None
    ELSE IF get_keyset(cose) = None THEN None
    ELSE LET found == get_kid(get_keyset(cose)[1], to_vec(id))
         IN  IF found = None THEN None
             ELSE IF ~found[1].ed25519 THEN None
             ELSE found[1].x

\* A lookup that checks the key of a PublicKey identity only.
get_public_key_for_identity_AddressableUnchecked(cose, id) ==
    IF is_anonymous(id) THEN None
    ELSE IF get_keyset(cose) = None THEN None
    ELSE LET found == get_kid(get_keyset(cose)[1], to_vec(id))
         IN  IF found = None THEN None
             ELSE IF ~found[1].ed25519 \/ found[1].x = None THEN None
             ELSE IF is_public_key(id) /\ public_key(found[1]) # id THEN None
             ELSE found[1].x

\* CoseSign1RequestMessage::get_public_key_for_identity: Option of the key
\* bytes to verify with.
get_public_key_for_identity(cose, id) ==
    IF is_anonymous(id) THEN None
    ELSE IF get_keyset(cose) = None THEN None
    ELSE LET found == get_kid(get_keyset(cose)[1], to_vec(id))
         IN  IF found = None THEN None
             ELSE LET cose_key == found[1]
                  IN  IF ~cose_key.ed25519 THEN None
                      ELSE IF cose_key.x = None THEN None
                      ELSE IF is_public_key(id)
                           THEN IF public_key(cose_key) = id THEN cose_key.x ELSE None
                      ELSE IF is_addressable(id)
                           THEN IF addressable(cose_key) = id THEN cose_key.x ELSE None
                      ELSE None

VerifyOk(id) == [ok |-> TRUE, id |-> Some(id), err |-> None]
VerifyErr(e) == [ok |-> FALSE, id |-> None, err |-> Some(e)]

\* A verify that looks up a key for the Anonymous identity too.
verify_AnonymousChecked(cose) ==
    IF cose.protected.kid = None THEN VerifyErr("Missing key ID")
    ELSE LET parsed == Identity_from_bytes(cose.protected.kid[1])
         IN  IF parsed = None THEN VerifyErr("Invalid (not an OMNI identity) key ID")
             ELSE LET id == parsed[1]
                      key == get_public_key_for_identity(cose, id)
                  IN  IF key = None
                           THEN VerifyErr("Could not find a public key in the envelope")
                      ELSE IF verify_with(cose, key[1]) = None
                           THEN VerifyErr("No signature")
                      ELSE IF ~verify_with(cose, key[1])[1]
                           THEN VerifyErr("Envelope does not verify.")
                      ELSE VerifyOk(id)

\* A verify that takes an envelope without a usable kid for an anonymous one.
verify_NoKidIsAnonymous(cose) ==
    IF cose.protected.kid = None THEN VerifyOk(Anonymous)
    ELSE LET parsed == Identity_from_bytes(cose.protected.kid[1])
         IN  IF parsed = None THEN VerifyOk(Anonymous)
             ELSE LET id == parsed[1]
                      key == get_public_key_for_identity(cose, id)
                  IN  IF is_anonymous(id) THEN VerifyOk(id)
                      ELSE IF key = None
                           THEN VerifyErr("Could not find a public key in the envelope")
                      ELSE IF verify_with(cose, key[1]) = None
                           THEN VerifyErr("No signature")
                      ELSE IF ~verify_with(cose, key[1])[1]
                           THEN VerifyErr("Envelope does not verify.")
                      ELSE VerifyOk(id)

\* CoseSign1RequestMessage::verify
verify(cose) ==
    IF cose.protected.kid = None THEN VerifyErr("Missing key ID")
    ELSE LET parsed == Identity_from_bytes(cose.protected.kid[1])
         IN  IF parsed = None THEN VerifyErr("Invalid (not an OMNI identity) key ID")
             ELSE LET id == parsed[1]
                      key == get_public_key_for_identity(cose, id)
                  IN  IF is_anonymous(id) THEN VerifyOk(id)
                      ELSE IF key = None
                           THEN VerifyErr("Could not find a public key in the envelope")
                      ELSE IF verify_with(cose, key[1]) = None
                           THEN VerifyErr("No signature")
                      ELSE IF ~verify_with(cose, key[1])[1]
                           THEN VerifyErr("Envelope does not verify.")
                      ELSE VerifyOk(id)

Ok(message) == [ok |-> TRUE, msg |-> Some(message), err |-> None]
Err(e) == [ok |-> FALSE, msg |-> None, err |-> Some(e)]

\* A check that lets a message without a `from` pass.
from_field_ok_AbsentAccepted(from_id, message) ==
    message.from = None \/ from_id = message.from[1]

\* The check of the `from` field: from_id != message.from.unwrap_or_default()
\* rejects.
from_field_ok(from_id, message) == from_id = unwrap_or_default(message.from)

\* The check of the `to` field, made only when a recipient is expected.
to_field_ok(to, message) == to = None \/ to[1] = message.to

\* A decoding that looks at the payload before it verifies the envelope.
decode_request_from_cose_sign1_PayloadFirst(cose, to) ==
    IF cose.payload = None THEN Err(empty_envelope)
    ELSE LET decoded == RequestMessage_from_bytes(cose.payload[1])
         IN  IF decoded = None THEN Err(internal_server_error)
             ELSE IF ~verify(cose).ok THEN Err(could_not_verify_signature)
             ELSE LET message == decoded[1]
                      from_id == verify(cose).id[1]
                  IN  IF ~from_field_ok(from_id, message)
                          THEN Err(invalid_from_identity)
                      ELSE IF ~to_field_ok(to, message)
                          THEN Err(unknown_destination(to_string(message.to),
                                                       to_string(to[1])))
                      ELSE Ok(message)

\* decode_request_from_cose_sign1(sign1, to)
decode_request_from_cose_sign1(cose, to) ==
    IF ~verify(cose).ok THEN Err(could_not_verify_signature)
    ELSE IF cose.payload = None THEN Err(empty_envelope)
    ELSE LET from_id == verify(cose).id[1]
             decoded == RequestMessage_from_bytes(cose.payload[1])
         IN  IF decoded = None THEN Err(internal_server_error)
             ELSE LET message == decoded[1]
                  IN  IF ~from_field_ok(from_id, message)
                          THEN Err(invalid_from_identity)
                      ELSE IF ~to_field_ok(to, message)
                          THEN Err(unknown_destination(to_string(message.to),
                                                       to_string(to[1])))
                      ELSE Ok(message)

EncOk(cose) == [ok |-> TRUE, cose |-> Some(cose), err |-> None]
EncErr(e) == [ok |-> FALSE, cose |-> None, err |-> Some(e)]

\* A construction that does not compare the identity with the key pair.
encode_cose_sign1_from_payload_Unchecked(payload, id, keypair) ==
    LET maybe_cose_key ==
            IF keypair = None THEN None
            ELSE Some(CoseKey(to_vec(id), PublicKeyOf(keypair[1])))
        keyset == IF maybe_cose_key = None THEN NoKeyset
                  ELSE Keyset(<<maybe_cose_key[1]>>)
        protected == ProtectedHeaders(Some(to_vec(id)), keyset)
        cose == CoseSign1(protected, Some(payload), None)
    IN  IF keypair = None THEN EncOk(cose)
        ELSE EncOk([cose EXCEPT !.signature = Some(Sign(keypair[1], SigContent(cose)))])

\* encode_cose_sign1_from_payload(payload, id, keypair)
encode_cose_sign1_from_payload(payload, id, keypair) ==
    LET maybe_cose_key ==
            IF keypair = None THEN None
            ELSE Some(CoseKey(to_vec(id), PublicKeyOf(keypair[1])))
        keyset == IF maybe_cose_key = None THEN NoKeyset
                  ELSE Keyset(<<maybe_cose_key[1]>>)
        protected == ProtectedHeaders(Some(to_vec(id)), keyset)
        cose == CoseSign1(protected, Some(payload), None)
    IN  IF ~matches_key(id, maybe_cose_key) THEN EncErr("Identity did not match keypair.")
        ELSE IF keypair = None THEN EncOk(cose)
        ELSE EncOk([cose EXCEPT !.signature = Some(Sign(keypair[1], SigContent(cose)))])

\* encode_cose_sign1_from_request(request, id, keypair)
encode_cose_sign1_from_request(request, id, keypair) ==
    encode_cose_sign1_from_payload(RequestMessage_to_bytes(request), id, keypair)

----------------------------------------------------------------------------
(* The inputs the scenario draws from                                      *)

\* The recipients a request names and a node expects.
Recipients == {Anonymous, PublicKeyId(PublicKeyOf(1))}

\* The requests a client encodes.
Requests == {RequestMessage(f, t) : f \in {None} \cup {Some(i) : i \in Identities},
                                    t \in Recipients}

\* The key ids an incoming envelope may carry: none, every identity's
\* bytes, and bytes that are no identity.
Kids == {None, Some(<<3>>)} \cup {Some(to_vec(i)) : i \in Identities}

\* The keys an incoming keyset may hold: any label, with any public key, with
\* no x, or of another key type.
ForgedKeys ==
    LET labels == {to_vec(i) : i \in Identities \ {Anonymous}}
    IN  {CoseKey(l, PublicKeyOf(k)) : l \in labels, k \in Keys}
        \cup {[kid |-> l, ed25519 |-> TRUE, x |-> None] : l \in labels}
        \cup {[kid |-> l, ed25519 |-> FALSE, x |-> Some(PublicKeyOf(1))] : l \in labels}

RECURSIVE SeqsUpTo(_, _)
SeqsUpTo(S, n) ==
    IF n = 0 THEN {<< >>}
    ELSE SeqsUpTo(S, n - 1)
         \cup {Append(q, e) : q \in {r \in SeqsUpTo(S, n - 1) : Len(r) = n - 1}, e \in S}

ForgedKeysets ==
    {NoKeyset, BadKeyset} \cup {Keyset(ks) : ks \in SeqsUpTo(ForgedKeys, MaxKeyset)}

\* The payloads of an incoming envelope: none, bytes that are no message,
\* and every sender's message to the first recipient.
ForgedPayloads ==
    {None, Some(<<9>>)}
    \cup {Some(RequestMessage_to_bytes(RequestMessage(f, PublicKeyId(PublicKeyOf(1))))) :
            f \in {None} \cup {Some(i) : i \in Identities}}

\* Signature bytes that are no key's signature of anything.
JunkSignature == [key |-> 0, content |-> << >>, flip |-> 0]

\* The values an altered payload byte may take.
ByteValues == {0, 1, 2} \cup {PublicKeyOf(k) : k \in Keys}

\* The `to` a node decodes with.
ExpectedTo == {None} \cup {Some(r) : r \in Recipients}

----------------------------------------------------------------------------
(* The scenario                                                            *)

\* No envelope has been built or received.
EnvIdle ==
    /\ pc = "start"
    /\ origin = "none"
    /\ encReq = None
    /\ encId = None
    /\ encKey = None
    /\ encErr = None
    /\ sign1 = None
    /\ expected = None
    /\ verified = None
    /\ result = None

\* No error has been made.
ErrIdle ==
    /\ epc = "idle"
    /\ error = None
    /\ rendered = None
    /\ wire = None
    /\ received = None

\* No code has been looked up.
LookIdle ==
    /\ lpc = "idle"
    /\ lookupIn = 0
    /\ lookupCode = None
    /\ lookupBack = None

\* A store just created: nothing committed, nothing staged.
StoreIdle ==
    /\ merk = EmptyMap
    /\ stage = EmptyMap
    /\ lastOp = "none"
    /\ prior = [merk |-> EmptyMap, stage |-> EmptyMap]
    /\ nOps = 0
    /\ iterArgs = None
    /\ iterOut = None

Init == EnvIdle /\ ErrIdle /\ LookIdle /\ StoreIdle

\* A client builds an envelope: encode_cose_sign1_from_request.
Encode ==
    /\ pc = "start"
    /\ \E request \in Requests, id \in Identities, keypair \in {None} \cup {Some(k) : k \in Keys} :
         LET r == encode_cose_sign1_from_request(request, id, keypair)
         IN  /\ encReq' = Some(request)
             /\ encId' = Some(id)
             /\ encKey' = keypair
             /\ encErr' = r.err
             /\ sign1' = r.cose
             /\ pc' = IF r.ok THEN "built" ELSE "encfail"
             /\ origin' = IF r.ok THEN "encoded" ELSE "none"
    /\ UNCHANGED <<expected, verified, result, errVars, lookVars, storeVars>>

\* An envelope arrives that no client of ours built: any headers, any
\* payload, unsigned, with junk for a signature, or signed over its own
\* content with any key.
Forge ==
    /\ pc = "start"
    /\ \E kid \in Kids, keyset \in ForgedKeysets, payload \in ForgedPayloads :
         LET cose == CoseSign1(ProtectedHeaders(kid, keyset), payload, None)
         IN  \E sig \in {None, Some(JunkSignature)}
                          \cup {Some(Sign(k, SigContent(cose))) : k \in Keys} :
                sign1' = Some([cose EXCEPT !.signature = sig])
    /\ pc' = "built"
    /\ origin' = "forged"
    /\ UNCHANGED <<encReq, encId, encKey, encErr, expected, verified, result, errVars, lookVars, storeVars>>

\* One byte of a built envelope's signature is altered in transit.
AlterSignature ==
    /\ pc = "built"
    /\ origin = "encoded"
    /\ sign1[1].signature # None
    /\ \E b \in 1..SigBytes :
         sign1' = Some([sign1[1] EXCEPT !.signature = Some([@[1] EXCEPT !.flip = b])])
    /\ origin' = "sig_altered"
    /\ UNCHANGED <<pc, encReq, encId, encKey, encErr, expected, verified, result, errVars, lookVars, storeVars>>

\* One byte of a built envelope's payload is altered in transit.
AlterPayload ==
    /\ pc = "built"
    /\ origin = "encoded"
    /\ \E i \in 1..Len(sign1[1].payload[1]), b \in ByteValues :
         /\ b # sign1[1].payload[1][i]
         /\ sign1' = Some([sign1[1] EXCEPT !.payload = Some([@[1] EXCEPT ![i] = b])])
    /\ origin' = "payload_altered"
    /\ UNCHANGED <<pc, encReq, encId, encKey, encErr, expected, verified, result, errVars, lookVars, storeVars>>

\* A node decodes the envelope: decode_request_from_cose_sign1(sign1, to).
Decode ==
    /\ pc = "built"
    /\ \E to \in ExpectedTo :
         /\ expected' = to
         /\ verified' = Some(verify(sign1[1]))
         /\ result' = Some(decode_request_from_cose_sign1(sign1[1], to))
    /\ pc' = "decoded"
    /\ UNCHANGED <<origin, encReq, encId, encKey, encErr, sign1, errVars, lookVars, storeVars>>

Next == Encode \/ Forge \/ AlterSignature \/ AlterPayload \/ Decode

Spec == Init /\ [][Next]_vars

----------------------------------------------------------------------------
(* Properties of the envelope protocol                                     *)

Decoded == pc = "decoded"
Env == sign1[1]
Res == result[1]
KidId == Identity_from_bytes(Env.protected.kid[1])
HasKidId == Env.protected.kid # None /\ KidId # None

\* The key bytes x derive identity id.
Derives(x, id) ==
    \/ id.tag = "public_key" /\ id.v = x
    \/ id.tag = "addressable" /\ id.v = Hash(x)

\* The envelope's signature is the intact signature, by the holder of public
\* key x, of the envelope's own headers and payload.
SignedBy(cose, x) ==
    /\ cose.signature # None
    /\ cose.signature[1].flip = 0
    /\ cose.signature[1].key = x
    /\ cose.signature[1].content = <<cose.protected, cose.payload>>

\* The keys of the embedded keyset.
EmbeddedKeys(cose) ==
    IF cose.protected.keyset.kind = "keyset"
    THEN {cose.protected.keyset.keys[i] : i \in 1..Len(cose.protected.keyset.keys)}
    ELSE {}

\* C1: every message decode_request_from_cose_sign1 returns has a from (an
\* absent one counting as Anonymous) equal to the identity of the kid; when
\* that identity is not Anonymous the signature verifies under a key of the
\* embedded keyset whose material derives it; and when a recipient was
\* expected, the message's to is that recipient.
C1_AcceptedIsAuthentic ==
    (Decoded /\ Res.ok) =>
        /\ HasKidId
        /\ unwrap_or_default(Res.msg[1].from) = KidId[1]
        /\ ~is_anonymous(KidId[1]) =>
              \E k \in EmbeddedKeys(Env) :
                 /\ k.x # None
                 /\ Derives(k.x[1], KidId[1])
                 /\ SignedBy(Env, k.x[1])
        /\ expected # None => Res.msg[1].to = expected[1]

\* C1: an envelope no client built, under a non-anonymous kid, is accepted by
\* a node that expects itself as recipient.
C1_Witness ==
    /\ Decoded /\ Res.ok /\ origin = "forged"
    /\ ~is_anonymous(KidId[1])
    /\ expected # None

\* C2: the envelope built for a request whose from is id, signed with the key
\* id derives from, decodes to the same request (with no expected recipient or
\* the request's own); with one byte of its signature or payload altered it is
\* rejected with CouldNotVerifySignature.
C2_RoundTripAndTamper ==
    (Decoded /\ encKey # None /\ encReq[1].from = encId) =>
        /\ (origin = "encoded" /\ expected \in {None, Some(encReq[1].to)}) =>
              (Res.ok /\ Res.msg = encReq /\ unwrap_or_default(Res.msg[1].from) = encId[1])
        /\ origin \in {"sig_altered", "payload_altered"} =>
              (~Res.ok /\ Res.err[1].code.name = "CouldNotVerifySignature")

\* C2: a signed envelope whose payload was altered into another well-formed
\* message has been decoded.
C2_Witness ==
    /\ Decoded /\ origin = "payload_altered" /\ encKey # None
    /\ encReq[1].from = encId
    /\ RequestMessage_from_bytes(Env.payload[1]) # None

\* C3: an envelope whose kid is the Anonymous identity verifies as Anonymous,
\* whatever its signature and keyset are.
C3_AnonymousVerifies ==
    (Decoded /\ HasKidId /\ KidId[1].tag = "anonymous") =>
        /\ verified[1].ok
        /\ verified[1].id = Some([tag |-> "anonymous", v |-> 0])

\* C3: an anonymous envelope with junk for a signature and a keyset has been
\* verified.
C3_Witness ==
    /\ Decoded /\ HasKidId /\ KidId[1].tag = "anonymous"
    /\ Env.signature # None /\ Env.signature[1].key = 0
    /\ Env.protected.keyset.kind = "keyset" /\ Len(Env.protected.keyset.keys) > 0

\* The message the payload holds, when verification succeeded and the
\* payload decodes.
Carried == RequestMessage_from_bytes(Env.payload[1])
CarriesMessage == verified[1].ok /\ Env.payload # None /\ Carried # None

\* C4: when verification succeeds and the payload's message has a from (an
\* absent one counting as Anonymous) that differs from the verified identity,
\* decoding fails with InvalidFromIdentity.
C4_FromMismatchRejected ==
    (Decoded /\ CarriesMessage
       /\ (IF Carried[1].from = None THEN [tag |-> "anonymous", v |-> 0]
           ELSE Carried[1].from[1]) # verified[1].id[1]) =>
        (~Res.ok /\ Res.err[1].code.name = "InvalidFromIdentity")

\* C4: a validly signed envelope carrying a message without a from has been
\* decoded.
C4_Witness ==
    /\ Decoded /\ CarriesMessage
    /\ Carried[1].from = None
    /\ \E k \in EmbeddedKeys(Env) : k.x # None /\ SignedBy(Env, k.x[1])
    /\ ~is_anonymous(verified[1].id[1])

\* C5: with an authentic envelope and a matching from, an expected recipient
\* that differs from the message's to gives UnknownDestination with field
\* `to` the message's recipient and field `this` the expected one; with no
\* expected recipient the message is accepted.
C5_UnknownDestination ==
    (Decoded /\ CarriesMessage /\ unwrap_or_default(Carried[1].from) = verified[1].id[1]) =>
        /\ (expected # None /\ expected[1] # Carried[1].to) =>
              /\ ~Res.ok
              /\ Res.err[1].code.name = "UnknownDestination"
              /\ DOMAIN Res.err[1].fields = {<<"to">>, <<"this">>}
              /\ Res.err[1].fields[<<"to">>] = to_string(Carried[1].to)
              /\ Res.err[1].fields[<<"this">>] = to_string(expected[1])
        /\ expected = None => (Res.ok /\ Res.msg = Carried)

\* C5: a signed, authentic envelope for another recipient has been decoded.
C5_Witness ==
    /\ Decoded /\ CarriesMessage
    /\ unwrap_or_default(Carried[1].from) = verified[1].id[1]
    /\ ~is_anonymous(verified[1].id[1])
    /\ expected # None /\ expected[1] # Carried[1].to

\* No key of the keyset that is labelled with the kid derives the identity.
NoMatchingKey ==
    \A k \in EmbeddedKeys(Env) :
        k.kid = Env.protected.kid[1] =>
            ~(k.ed25519 /\ k.x # None /\ Derives(k.x[1], KidId[1]))

\* C6: for a non-anonymous kid, when the keyset holds no key under the kid
\* that derives the identity (no keyset, no entry under the kid, or entries
\* whose material does not derive it), the request is rejected with
\* CouldNotVerifySignature, and so it is when a key was located and the
\* signature does not verify under it: the two errors are equal.
C6_KeyNotFoundIsSignatureFailure ==
    (Decoded /\ HasKidId /\ KidId[1].tag # "anonymous") =>
        /\ NoMatchingKey =>
              (~Res.ok /\ Res.err = Some(could_not_verify_signature))
        /\ (~NoMatchingKey
              /\ \A k \in EmbeddedKeys(Env) : k.x # None => ~SignedBy(Env, k.x[1])) =>
              (~Res.ok /\ Res.err = Some(could_not_verify_signature))

\* C6: an envelope whose keyset holds, under the victim's addressable kid,
\* the key that signed it, but not the victim's key, has been decoded.
C6_Witness ==
    /\ Decoded /\ HasKidId /\ KidId[1].tag = "addressable"
    /\ NoMatchingKey
    /\ \E k \in EmbeddedKeys(Env) :
          k.kid = Env.protected.kid[1] /\ k.x # None /\ SignedBy(Env, k.x[1])

\* The envelope has no kid, or a kid that is no identity.
NoKid == Env.protected.kid = None
BadKid == Env.protected.kid # None /\ KidId = None

\* C7, as claimed: an envelope without a kid is rejected with the error
\* MissingKeyId, one whose kid is no identity with InvalidKeyId, both distinct
\* from CouldNotVerifySignature.
C7_AsClaimed ==
    (Decoded /\ (NoKid \/ BadKid)) =>
        /\ ~Res.ok
        /\ Res.err[1].code.name # "CouldNotVerifySignature"
        /\ NoKid => Res.err[1].code.name = "MissingKeyId"
        /\ BadKid => Res.err[1].code.name = "InvalidKeyId"

\* C7, amended: verify fails with "Missing key ID" for an envelope without a
\* kid and with "Invalid (not an OMNI identity) key ID" for a kid that is no
\* identity; decode_request_from_cose_sign1 reports both as
\* CouldNotVerifySignature and returns no message.
C7_KidErrorsCollapse ==
    (Decoded /\ (NoKid \/ BadKid)) =>
        /\ ~verified[1].ok
        /\ NoKid => verified[1].err = Some("Missing key ID")
        /\ BadKid => verified[1].err = Some("Invalid (not an OMNI identity) key ID")
        /\ ~Res.ok /\ Res.msg = None
        /\ Res.err[1].code.name = "CouldNotVerifySignature"

\* C7: an envelope without a kid, carrying a well-formed message and a
\* signature, has been decoded.
C7_Witness ==
    /\ Decoded /\ NoKid
    /\ Env.payload # None /\ Carried # None
    /\ Env.signature # None

\* The envelope is as encode_cose_sign1_from_request left it.
Constructed == encId # None /\ origin \in {"none", "encoded"}

\* C8: construction with a key pair whose public key does not derive the
\* identity fails with the mismatch error and yields no envelope; a signed
\* envelope it returns has kid the identity's bytes, a one-entry keyset with
\* the signer's public key, which derives the identity, and a signature by
\* that key; an envelope built without a key pair has no signature and no
\* keyset.
C8_NeverSignsForAnother ==
    Constructed =>
        /\ (encKey # None /\ ~Derives(PublicKeyOf(encKey[1]), encId[1])) =>
              (sign1 = None /\ encErr = Some("Identity did not match keypair."))
        /\ (sign1 # None /\ Env.signature # None) =>
              /\ encKey # None
              /\ Env.protected.kid = Some(to_vec(encId[1]))
              /\ Env.protected.keyset.kind = "keyset"
              /\ Len(Env.protected.keyset.keys) = 1
              /\ Env.protected.keyset.keys[1].x = Some(PublicKeyOf(encKey[1]))
              /\ Derives(PublicKeyOf(encKey[1]), encId[1])
              /\ SignedBy(Env, PublicKeyOf(encKey[1]))
        /\ (sign1 # None /\ encKey = None) =>
              /\ Env.signature = None
              /\ Env.protected.keyset.kind = "absent"

\* C8: construction was refused for a key pair that is not the identity's.
C8_Witness ==
    /\ Constructed /\ pc = "encfail"
    /\ encKey # None /\ ~is_anonymous(encId[1])
    /\ encErr = Some("Identity did not match keypair.")

----------------------------------------------------------------------------
(* OmniError: Display                                                      *)
(*                                                                         *)
(* A string is a sequence of characters. In the registered templates a run *)
(* of characters other than braces is written as one symbol.               *)

\* The omni_error! table: the code's number, name and message template.
Registry ==
    << [v |-> 0, name |-> "Unknown", template |-> <<"Unknown error.">>],
       [v |-> 1, name |-> "MessageTooLong",
        template |-> <<"Message is too long. Max allowed size is ", "{", "max", "}",
                       " bytes.">>],
       [v |-> 1000, name |-> "InvalidMethodName",
        template |-> <<"Invalid method name: \"", "{", "method", "}", "\".">>],
       [v |-> 1001, name |-> "InvalidFromIdentity",
        template |-> <<"The identity of the from field is invalid or unexpected.">>],
       [v |-> 1002, name |-> "CouldNotVerifySignature",
        template |-> <<"Signature does not match the public key.">>],
       [v |-> 1003, name |-> "UnknownDestination",
        template |-> <<"Unknown destination for message.\nThis is \"", "{", "this", "}",
                       "\", message was for \"", "{", "to", "}", "\".">>],
       [v |-> 1004, name |-> "EmptyEnvelope",
        template |-> <<"An envelope must contain a payload.">>],
       [v |-> 2000, name |-> "InternalServerError",
        template |-> <<"An internal server error happened.">>] >>

RegisteredCodes == {Code(Registry[i].name) : i \in 1..Len(Registry)}

\* The table's entry of a registered code.
EntryOf(code) == Registry[CHOOSE i \in 1..Len(Registry) : Registry[i].name = code.name]

\* OmniErrorCode::message: Option of the registered template.
code_message(code) ==
    IF code \in RegisteredCodes THEN Some(EntryOf(code).template) ELSE None

\* The template Display renders: the explicit message, else the code's
\* template, else "Invalid error code.".
TemplateOf(e) ==
    IF e.message # None THEN e.message[1]
    ELSE IF code_message(e.code) # None THEN code_message(e.code)[1]
    ELSE <<"Invalid error code.">>

\* The regex with the named field tried before the double braces.
RegexMatchAt_FieldFirst(s, i) ==
    IF s[i + 1] = "{" /\ \E j \in i + 1..Len(s) - 1 : s[j + 1] = "}"
        THEN 1 + CHOOSE j \in i + 1..Len(s) - 1 :
                    s[j + 1] = "}" /\ \A k \in i + 1..j - 1 : s[k + 1] # "}"
    ELSE IF i + 1 < Len(s) /\ s[i + 1] = "{" /\ s[i + 2] = "{" THEN i + 2
    ELSE IF i + 1 < Len(s) /\ s[i + 1] = "}" /\ s[i + 2] = "}" THEN i + 2
    ELSE -1

\* The regex \{\{|\}\}|\{[^\}]*\} tried at offset i of s (offsets count from
\* 0, as in Rust): the offset its match ends at, the alternatives tried in
\* order, or -1 when none matches there.
RegexMatchAt(s, i) ==
    IF i + 1 < Len(s) /\ s[i + 1] = "{" /\ s[i + 2] = "{" THEN i + 2
    ELSE IF i + 1 < Len(s) /\ s[i + 1] = "}" /\ s[i + 2] = "}" THEN i + 2
    ELSE IF s[i + 1] = "{" /\ \E j \in i + 1..Len(s) - 1 : s[j + 1] = "}"
        THEN 1 + CHOOSE j \in i + 1..Len(s) - 1 :
                    s[j + 1] = "}" /\ \A k \in i + 1..j - 1 : s[k + 1] # "}"
    ELSE -1

\* re.find_iter(s): the matches from offset `from` on, leftmost first, none
\* overlapping, each as <<start, end>>.
RECURSIVE find_iter(_, _)
find_iter(s, from) ==
    LET starts == {i \in from..Len(s) - 1 : RegexMatchAt(s, i) # -1}
    IN  IF starts = {} THEN << >>
        ELSE LET start == CHOOSE i \in starts : \A j \in starts : i <= j
             IN  <<<<start, RegexMatchAt(s, start)>>>> \o find_iter(s, RegexMatchAt(s, start))

\* &s[a..b]: Option, None standing for the panic of a range that is not
\* within s.
Slice(s, a, b) == IF 0 <= a /\ a <= b /\ b <= Len(s) THEN Some(SubSeq(s, a + 1, b)) ELSE None

\* self.fields.get(field).unwrap_or(&"".to_string())
FieldOr(fields, field) == IF field \in DOMAIN fields THEN fields[field] ELSE << >>

\* The body of Display's loop for match k and the final write_str: Option of
\* the text written from match k on, `current` being the end of the match
\* before.
RECURSIVE write_from(_, _, _, _, _)
write_from(msg, fields, matches, k, current) ==
    IF k > Len(matches) THEN Slice(msg, current, Len(msg))
    ELSE LET start == matches[k][1]
             end == matches[k][2]
             before == Slice(msg, current, start)
             text == Slice(msg, start, end)
             field == Slice(msg, start + 1, end - 1)
             rest == write_from(msg, fields, matches, k + 1, end)
         IN  IF before = None \/ rest = None THEN None
             ELSE IF text[1] = <<"{", "{">> THEN Some(before[1] \o <<"{">> \o rest[1])
             ELSE IF text[1] = <<"}", "}">> THEN Some(before[1] \o <<"}">> \o rest[1])
             ELSE IF field = None THEN None
             ELSE Some(before[1] \o FieldOr(fields, field[1]) \o rest[1])

\* impl Display for OmniError: Option of the text, None when it fails.
fmt(e) == write_from(TemplateOf(e), e.fields, find_iter(TemplateOf(e), 0), 1, 0)

----------------------------------------------------------------------------
(* OmniError: the binary form                                              *)

\* A lookup whose application range starts above the reserved code.
CodeFromU32_AboveReserved(v) ==
    IF \E i \in 1..Len(Registry) : Registry[i].v = v
        THEN Code(Registry[CHOOSE i \in 1..Len(Registry) : Registry[i].v = v].name)
    ELSE IF v > RESERVED_OMNI_ERROR_CODE THEN ApplicationSpecific(v)
    ELSE Code("Unknown")

\* OmniErrorCode::from(u32)
CodeFromU32(v) ==
    IF \E i \in 1..Len(Registry) : Registry[i].v = v
        THEN Code(Registry[CHOOSE i \in 1..Len(Registry) : Registry[i].v = v].name)
    ELSE IF v >= RESERVED_OMNI_ERROR_CODE THEN ApplicationSpecific(v)
    ELSE Code("Unknown")

\* Into<u32> for OmniErrorCode
CodeIntoU32(code) ==
    IF code \in RegisteredCodes THEN EntryOf(code).v ELSE code.x

\* OmniErrorCode::is_application_specific
is_application_specific(code) ==
    code.name = "ApplicationSpecific" /\ code.x >= RESERVED_OMNI_ERROR_CODE

\* The CBOR data items minicbor writes and reads.
CborArray(n) == [t |-> "array", n |-> n, s |-> << >>, m |-> NoFields]
CborU32(v) == [t |-> "u32", n |-> v, s |-> << >>, m |-> NoFields]
CborStr(str) == [t |-> "str", n |-> 0, s |-> str, m |-> NoFields]
CborMap(map) == [t |-> "map", n |-> 0, s |-> << >>, m |-> map]

\* impl Encode for OmniError
encode(e) ==
    IF e.message # None /\ e.fields = NoFields
        THEN <<CborArray(2), CborU32(CodeIntoU32(e.code)), CborStr(e.message[1])>>
    ELSE IF e.message # None
        THEN <<CborArray(3), CborU32(CodeIntoU32(e.code)), CborStr(e.message[1]),
               CborMap(e.fields)>>
    ELSE IF e.fields = NoFields
        THEN <<CborArray(1), CborU32(CodeIntoU32(e.code))>>
    ELSE <<CborArray(2), CborU32(CodeIntoU32(e.code)), CborMap(e.fields)>>

\* d.datatype() at item k: "end" standing for its Err at the end of input.
datatype(items, k) == IF k <= Len(items) THEN items[k].t ELSE "end"

\* The fields read at item k: the map when the next item is one, else empty.
decode_fields(items, k) == IF datatype(items, k) = "map" THEN items[k].m ELSE NoFields

DecodeOk(e) == [ok |-> TRUE, err |-> Some(e)]
DecodeErr == [ok |-> FALSE, err |-> None]

\* impl Decode for OmniError
decode(items) ==
    IF datatype(items, 1) # "array" THEN DecodeErr
    ELSE IF datatype(items, 2) # "u32" THEN DecodeErr
    ELSE LET code == CodeFromU32(items[2].n)
         IN  IF is_application_specific(code)
                 THEN IF datatype(items, 3) # "str" THEN DecodeErr
                      ELSE DecodeOk([code |-> code, message |-> Some(items[3].s),
                                     fields |-> decode_fields(items, 4)])
             ELSE DecodeOk([code |-> code, message |-> None,
                            fields |-> decode_fields(items, 3)])

----------------------------------------------------------------------------
(* The error scenarios                                                     *)

\* The characters message templates are drawn over.
TemplateChars == {"{", "}", "0", "a"}

Templates == SeqsUpTo(TemplateChars, MaxTemplateLen)

\* The templates and the fields of the tests of error.rs.
TestFields ==
    [n \in {<<"0">>, <<"1">>, <<"2">>} |->
        IF n = <<"0">> THEN <<"ZERO">> ELSE IF n = <<"1">> THEN <<"ONE">> ELSE <<"TWO">>]

TestTemplates ==
    { <<"Hello ", "{", "0", "}", " and ", "{", "2", "}", ".">>,
      <<"{", "2", "}">>,
      <<"@", "{", "a", "}", "{", "b", "}", "{", "c", "}", ".">>,
      <<"/", "{", "{", "}", "}", "{", "{", "{", "0", "}", "}", "}",
        "{", "{", "{", "a", "}", "}", "}", "{", "b", "}", "}", "}",
        "{", "{", "{", "2", "}", ".">> }

\* Fields whose values hold braces, and a field with an empty name.
BraceFields ==
    [n \in {<<"a">>, <<"0">>, << >>} |->
        IF n = <<"a">> THEN <<"{", "0", "}">> ELSE IF n = <<"0">> THEN <<"}", "}">>
        ELSE <<"E">>]

\* The errors the generated constructors make, with their arguments.
ConstructedErrors ==
    { OmniErrorOf("Unknown", NoFields),
      OmniErrorOf("MessageTooLong", [n \in {<<"max">>} |-> <<"512">>]),
      OmniErrorOf("InvalidMethodName", [n \in {<<"method">>} |-> <<"ledger.info">>]),
      invalid_from_identity,
      could_not_verify_signature,
      unknown_destination(to_string(Anonymous), to_string(PublicKeyId(PublicKeyOf(1)))),
      empty_envelope,
      internal_server_error }

\* The errors Display is asked to render.
DisplayErrors ==
    ConstructedErrors
    \cup {[code |-> ApplicationSpecific(RESERVED_OMNI_ERROR_CODE), message |-> None,
           fields |-> TestFields]}
    \cup {[code |-> c, message |-> Some(t), fields |-> f] :
            c \in {Code("Unknown")},
            t \in Templates \cup TestTemplates,
            f \in {NoFields, TestFields, BraceFields}}

\* The errors Encode is asked to write: every code, with and without a
\* message, with and without fields.
CodecErrors ==
    {[code |-> c, message |-> m, fields |-> f] :
        c \in RegisteredCodes \cup {ApplicationSpecific(RESERVED_OMNI_ERROR_CODE),
                                    ApplicationSpecific(RESERVED_OMNI_ERROR_CODE + 1)},
        m \in {None, Some(<<"Hello ", "{", "0", "}", ".">>), Some(<<"m">>)},
        f \in {NoFields, TestFields, BraceFields}}

\* An error is constructed to be rendered.
MakeForDisplay ==
    /\ epc = "idle"
    /\ \E e \in DisplayErrors : error' = Some(e)
    /\ epc' = "made"
    /\ UNCHANGED <<rendered, wire, received, envVars, lookVars, storeVars>>

\* format!("{}", e)
Display ==
    /\ epc = "made"
    /\ rendered' = Some(fmt(error[1]))
    /\ epc' = "displayed"
    /\ UNCHANGED <<error, wire, received, envVars, lookVars, storeVars>>

NextDisplay == MakeForDisplay \/ Display

SpecDisplay == Init /\ [][NextDisplay]_vars

\* An error is constructed to be sent.
MakeForCodec ==
    /\ epc = "idle"
    /\ \E e \in CodecErrors : error' = Some(e)
    /\ epc' = "made"
    /\ UNCHANGED <<rendered, wire, received, envVars, lookVars, storeVars>>

\* minicbor::to_vec(e)
EncodeError ==
    /\ epc = "made"
    /\ wire' = Some(encode(error[1]))
    /\ epc' = "encoded"
    /\ UNCHANGED <<error, rendered, received, envVars, lookVars, storeVars>>

\* minicbor::decode(bytes)
DecodeError ==
    /\ epc = "encoded"
    /\ received' = Some(decode(wire[1]))
    /\ epc' = "decoded"
    /\ UNCHANGED <<error, rendered, wire, envVars, lookVars, storeVars>>

NextCodec == MakeForCodec \/ EncodeError \/ DecodeError

SpecCodec == Init /\ [][NextCodec]_vars

----------------------------------------------------------------------------
(* Properties of OmniError                                                 *)

\* The rendering the template language defines: one scan from the left, in
\* which {{ gives {, }} gives }, {name}, the name being the characters up to
\* the next }, gives the field of that name or nothing, and any other
\* character gives itself.
RECURSIVE Scan(_, _, _)
Scan(t, i, fields) ==
    IF i > Len(t) THEN << >>
    ELSE IF i < Len(t) /\ t[i] = "{" /\ t[i + 1] = "{" THEN <<"{">> \o Scan(t, i + 2, fields)
    ELSE IF i < Len(t) /\ t[i] = "}" /\ t[i + 1] = "}" THEN <<"}">> \o Scan(t, i + 2, fields)
    ELSE LET closing == {j \in i + 1..Len(t) : t[j] = "}"}
         IN  IF t[i] = "{" /\ closing # {}
                 THEN LET j == CHOOSE c \in closing : \A d \in closing : c <= d
                          name == [k \in 1..(j - i - 1) |-> t[i + k]]
                      IN  (IF name \in DOMAIN fields THEN fields[name] ELSE << >>)
                          \o Scan(t, j + 1, fields)
             ELSE <<t[i]>> \o Scan(t, i + 1, fields)

\* The template of the error at hand: its message, else its code's.
Shown ==
    IF error[1].message # None THEN error[1].message[1]
    ELSE IF \E i \in 1..Len(Registry) : Registry[i].name = error[1].code.name
        THEN Registry[CHOOSE i \in 1..Len(Registry) :
                        Registry[i].name = error[1].code.name].template
    ELSE <<"Invalid error code.">>

\* C9: Display never fails and writes the one-scan rendering of the error's
\* template (the message, else the code's registered template); with the
\* tests' fields, "/{{}}{{{0}}}{{{a}}}{b}}}{{{2}." renders "/{}{ZERO}{}}{TWO."
\* and "@{a}{b}{c}." renders "@.".
C9_DisplayIsOneScan ==
    epc = "displayed" =>
        /\ rendered[1] # None
        /\ rendered[1][1] = Scan(Shown, 1, error[1].fields)
        /\ (error[1].fields = TestFields
              /\ Shown = <<"@", "{", "a", "}", "{", "b", "}", "{", "c", "}", ".">>) =>
              rendered[1][1] = <<"@", ".">>
        /\ (error[1].fields = TestFields /\ Len(Shown) = 30 /\ Shown[1] = "/") =>
              rendered[1][1] = <<"/", "{", "}", "{", "ZERO", "}", "{", "}", "}", "{", "TWO",
                                 ".">>

\* C9: a template in which a double brace meets a named field has been
\* rendered with the field present.
C9_Witness ==
    /\ epc = "displayed"
    /\ Shown = <<"{", "{", "{", "0", "}">>
    /\ error[1].fields = TestFields
    /\ rendered[1] = Some(<<"{", "ZERO">>)

\* C10, as claimed: decoding the encoding of an error succeeds and gives back
\* its code, message and fields.
C10_RoundTrip ==
    epc = "decoded" =>
        /\ received[1].ok
        /\ received[1].err[1].code = error[1].code
        /\ received[1].err[1].message = error[1].message
        /\ received[1].err[1].fields = error[1].fields

----------------------------------------------------------------------------
(* OmniErrorCode: lookup from an integer                                   *)

\* The integers looked up: those around the start of each range of the
\* registry, around the application range, and a large one.
LookupInputs ==
    ({b + d : b \in {0, 1000, 2000, 3000, RESERVED_OMNI_ERROR_CODE},
              d \in -LookupSpan..LookupSpan} \cap Nat)
        \cup {2147483647}

\* OmniErrorCode::from(v)
FromU32 ==
    /\ lpc = "idle"
    /\ \E v \in LookupInputs :
         /\ lookupIn' = v
         /\ lookupCode' = Some(CodeFromU32(v))
    /\ lpc' = "looked"
    /\ UNCHANGED <<lookupBack, envVars, errVars, storeVars>>

\* code.into(): the code as a u32 again.
IntoU32 ==
    /\ lpc = "looked"
    /\ lookupBack' = Some(CodeIntoU32(lookupCode[1]))
    /\ lpc' = "back"
    /\ UNCHANGED <<lookupIn, lookupCode, envVars, errVars, storeVars>>

NextLookup == FromU32 \/ IntoU32

SpecLookup == Init /\ [][NextLookup]_vars

\* The range of the registry an integer lies in.
RangeOf(n) ==
    IF n < 1000 THEN "transport"
    ELSE IF n < 2000 THEN "request"
    ELSE IF n < 3000 THEN "server"
    ELSE IF n >= 10000 THEN "application"
    ELSE "unassigned"

\* The numbers the registry names.
RegisteredNumbers == {0, 1, 1000, 1001, 1002, 1003, 1004, 2000}

\* C11, as claimed: the code looked up for an integer lies in the integer's
\* range, is ApplicationSpecific exactly from 10000 on, and converts back to
\* the integer.
C11_AsClaimed ==
    lpc = "back" =>
        /\ (lookupCode[1].name = "ApplicationSpecific") <=> (lookupIn >= 10000)
        /\ lookupCode[1].name = "ApplicationSpecific" => lookupCode[1].x >= 10000
        /\ RangeOf(lookupBack[1]) = RangeOf(lookupIn)
        /\ lookupBack[1] = lookupIn

\* C11, amended: the lookup yields ApplicationSpecific(x) exactly when
\* x >= 10000 and never below it; a registered number yields its variant,
\* which lies in the number's range; both convert back to the original
\* integer; every other integer below 10000 yields Unknown, which converts
\* back to 0.
C11_LookupByRegistry ==
    lpc = "back" =>
        /\ (lookupCode[1].name = "ApplicationSpecific") <=> (lookupIn >= 10000)
        /\ lookupCode[1].name = "ApplicationSpecific" =>
              (lookupCode[1].x = lookupIn /\ lookupCode[1].x >= 10000)
        /\ (lookupIn \in RegisteredNumbers \/ lookupIn >= 10000) =>
              /\ lookupBack[1] = lookupIn
              /\ RangeOf(lookupBack[1]) = RangeOf(lookupIn)
        /\ (lookupIn \notin RegisteredNumbers /\ lookupIn < 10000) =>
              /\ lookupCode[1] = [name |-> "Unknown", x |-> 0]
              /\ lookupBack[1] = 0
        /\ lookupBack[1] < 10000 => lookupBack[1] \in RegisteredNumbers

\* C11: an unregistered request-range integer has been looked up and
\* converted back.
C11_Witness ==
    /\ lpc = "back"
    /\ lookupIn = 1005
    /\ lookupBack = Some(0)

----------------------------------------------------------------------------
(* MerkStorageBackend                                                      *)

\* incr(v): the last byte that is not 0xFF is increased; the bytes after it
\* are left as they are; a vector of 0xFF only becomes 1 followed by zeros.
incr(v) ==
    IF \E x \in 1..Len(v) : v[x] # 255
        THEN LET x == CHOOSE y \in 1..Len(v) :
                         /\ v[y] # 255
                         /\ \A z \in (y + 1)..Len(v) : v[z] = 255
             IN  [v EXCEPT ![x] = v[x] + 1]
    ELSE <<1>> \o [i \in 1..Len(v) |-> 0]

\* The order of keys in the store: bytewise, a proper prefix first.
LexLess(a, b) ==
    \E i \in 1..Len(b) :
        /\ i - 1 <= Len(a)
        /\ \A j \in 1..(i - 1) : a[j] = b[j]
        /\ (i > Len(a) \/ a[i] < b[i])

\* BTreeMap::insert
Insert(m, k, v) ==
    [x \in DOMAIN m \cup {k} |-> IF x = k THEN v ELSE m[x]]

\* Merk::apply_unchecked of a batch of Op::Put
apply_unchecked(m, batch) ==
    [x \in DOMAIN m \cup DOMAIN batch |->
        IF x \in DOMAIN batch THEN batch[x] ELSE m[x]]

\* get(key): read from the persistent store only.
get(m, key) == IF key \in DOMAIN m THEN Some(m[key]) ELSE None

\* get_staged(key): the staged value if there is one, else the stored one.
get_staged(m, s, key) == IF key \in DOMAIN s THEN Some(s[key]) ELSE get(m, key)

\* std::collections::Bound
Unbounded == [kind |-> "Unbounded", key |-> << >>]
Included(k) == [kind |-> "Included", key |-> k]
Excluded(k) == [kind |-> "Excluded", key |-> k]

\* options.set_iterate_lower_bound for a start bound
lower_bound(start) ==
    IF start.kind = "Included" THEN Some(start.key)
    ELSE IF start.kind = "Excluded" THEN Some(incr(start.key))
    ELSE None

\* options.set_iterate_upper_bound for an end bound
upper_bound(end) ==
    IF end.kind = "Included" THEN Some(incr(end.key))
    ELSE IF end.kind = "Excluded" THEN Some(end.key)
    ELSE None

\* Keys in ascending order.
RECURSIVE Ascending(_)
Ascending(S) ==
    IF S = {} THEN << >>
    ELSE LET m == CHOOSE k \in S : \A o \in S \ {k} : LexLess(k, o)
         IN  <<m>> \o Ascending(S \ {m})

Reverse(q) == [i \in 1..Len(q) |-> q[Len(q) + 1 - i]]

\* Merk::iter_opt: the entries from the lower bound (inclusive) up to the
\* upper bound (exclusive), from the start or from the end.
iter_opt(m, mode, lower, upper) ==
    LET within == {k \in DOMAIN m :
                      /\ lower = None \/ ~LexLess(k, lower[1])
                      /\ upper = None \/ LexLess(k, upper[1])}
        asc == Ascending(within)
        keys == IF mode = "Start" THEN asc ELSE Reverse(asc)
    IN  [i \in 1..Len(keys) |-> <<keys[i], m[keys[i]]>>]

\* MerkStorageBackend::iter
iter(m, start, end, direction) ==
    iter_opt(m, IF direction = "Forward" THEN "Start" ELSE "End",
             lower_bound(start), upper_bound(end))

\* The bytes keys are made of: the least two and the greatest.
KeyBytes == {0, 1, 255}

\* The keys put: byte strings of each length up to the bound.
StoreKeys == UNION {[1..n -> KeyBytes] : n \in 1..MaxKeyLen}

StoreValues == {<<1>>, <<2>>}

Bounds == {Unbounded} \cup {Included(k) : k \in StoreKeys}
                      \cup {Excluded(k) : k \in StoreKeys}

Directions == {"Forward", "Backward"}

\* put(key, value)
Put(key, value) ==
    /\ nOps < MaxOps
    /\ stage' = Insert(stage, key, value)
    /\ lastOp' = "put"
    /\ prior' = [merk |-> merk, stage |-> stage]
    /\ nOps' = nOps + 1
    /\ iterArgs' = None
    /\ iterOut' = None
    /\ UNCHANGED <<merk, envVars, errVars, lookVars>>

\* commit(), both steps succeeding: the batch is taken from the stage, the
\* stage is replaced by an empty one, the batch is applied and written.
Commit ==
    /\ nOps < MaxOps
    /\ LET batch == stage
       IN  /\ stage' = EmptyMap
           /\ merk' = apply_unchecked(merk, batch)
    /\ lastOp' = "commit"
    /\ prior' = [merk |-> merk, stage |-> stage]
    /\ nOps' = nOps + 1
    /\ iterArgs' = None
    /\ iterOut' = None
    /\ UNCHANGED <<envVars, errVars, lookVars>>

\* commit() with apply_unchecked returning an error: the stage has already
\* been replaced, `?` returns before anything is applied.
CommitApplyFails ==
    /\ nOps < MaxOps
    /\ stage' = EmptyMap
    /\ lastOp' = "apply_failed"
    /\ prior' = [merk |-> merk, stage |-> stage]
    /\ nOps' = nOps + 1
    /\ iterArgs' = None
    /\ iterOut' = None
    /\ UNCHANGED <<merk, envVars, errVars, lookVars>>

\* commit() with Merk::commit returning an error after the batch was
\* applied: the store holds the batch or not, as the failed write left it.
CommitWriteFails ==
    /\ nOps < MaxOps
    /\ LET batch == stage
       IN  /\ stage' = EmptyMap
           /\ merk' \in {merk, apply_unchecked(merk, batch)}
    /\ lastOp' = "write_failed"
    /\ prior' = [merk |-> merk, stage |-> stage]
    /\ nOps' = nOps + 1
    /\ iterArgs' = None
    /\ iterOut' = None
    /\ UNCHANGED <<envVars, errVars, lookVars>>

\* iter(start, end, direction), collected; called on a store just
\* committed, as the test calls it.
Iter ==
    /\ lastOp = "commit"
    /\ \E start \in Bounds, end \in Bounds, direction \in Directions :
         /\ iterArgs' = Some([start |-> start, end |-> end,
                              direction |-> direction])
         /\ iterOut' = Some(iter(merk, start, end, direction))
    /\ lastOp' = "iter"
    /\ prior' = [merk |-> merk, stage |-> stage]
    /\ UNCHANGED <<merk, stage, nOps, envVars, errVars, lookVars>>

\* The test's use: keys put with themselves as values, committed, iterated.
NextIter ==
    \/ \E k \in StoreKeys : Put(k, k)
    \/ Commit
    \/ Iter

SpecIter == Init /\ [][NextIter]_vars

\* Puts and commits, a commit succeeding or failing in either step.
NextStore ==
    \/ \E k \in StoreKeys, v \in StoreValues : Put(k, v)
    \/ Commit
    \/ CommitApplyFails
    \/ CommitWriteFails

SpecStore == Init /\ [][NextStore]_vars

\* A key lies within a start and an end bound.
Within(k, start, end) ==
    /\ \/ start.kind = "Unbounded"
       \/ start.kind = "Included" /\ ~LexLess(k, start.key)
       \/ start.kind = "Excluded" /\ LexLess(start.key, k)
    /\ \/ end.kind = "Unbounded"
       \/ end.kind = "Included" /\ ~LexLess(end.key, k)
       \/ end.kind = "Excluded" /\ LexLess(k, end.key)

\* A sequence of entries is in strictly ascending order of keys.
IsAscending(q) == \A i \in 1..(Len(q) - 1) : LexLess(q[i][1], q[i + 1][1])

\* C12: iter yields exactly the committed entries whose keys lie within the
\* start and end bounds, ascending when Forward, the reverse when Backward,
\* whatever the bytes of the keys and the bounds.
C12_IterWithinBounds ==
    lastOp = "iter" =>
        LET a == iterArgs[1]
            out == iterOut[1]
            asc == IF a.direction = "Forward" THEN out ELSE Reverse(out)
        IN  /\ {e[1] : e \in {out[i] : i \in 1..Len(out)}}
                 = {k \in DOMAIN merk : Within(k, a.start, a.end)}
            /\ \A i \in 1..Len(out) : out[i][2] = merk[out[i][1]]
            /\ IsAscending(asc)

\* C13: put changes only the stage; a commit that succeeds empties the
\* stage and leaves get(k) returning the last value put for each staged
\* key, the other keys as they were; a commit whose apply step fails
\* applies none of the staged entries and loses none of them.
C13_CommitAtomic ==
    /\ lastOp = "put" =>
          /\ merk = prior.merk
          /\ \A k \in StoreKeys : get(merk, k) = get(prior.merk, k)
          /\ \E k \in DOMAIN stage :
               \A x \in StoreKeys \ {k} :
                   get_staged(merk, stage, x)
                       = get_staged(prior.merk, prior.stage, x)
    /\ lastOp = "commit" =>
          /\ stage = EmptyMap
          /\ \A k \in StoreKeys :
               get(merk, k) = get_staged(prior.merk, prior.stage, k)
    /\ lastOp = "apply_failed" =>
          /\ merk = prior.merk
          /\ stage = prior.stage

----------------------------------------------------------------------------
(* The order of the checks of decode_request_from_cose_sign1               *)

\* The first check, in the order of the claim, that the decoded envelope
\* fails; "none" when it passes them all.
FirstFailure ==
    IF ~verified[1].ok THEN "CouldNotVerifySignature"
    ELSE IF Env.payload = None THEN "EmptyEnvelope"
    ELSE IF Carried = None THEN "InternalServerError"
    ELSE IF unwrap_or_default(Carried[1].from) # verified[1].id[1]
        THEN "InvalidFromIdentity"
    ELSE IF expected # None /\ expected[1] # Carried[1].to
        THEN "UnknownDestination"
    ELSE "none"

\* No key of the keyset signed the envelope as it is.
InvalidSignature ==
    \A k \in EmbeddedKeys(Env) : k.x # None => ~SignedBy(Env, k.x[1])

\* A key of the keyset labelled with the kid derives the identity and signed
\* the envelope as it is.
Authentic ==
    \E k \in EmbeddedKeys(Env) :
        /\ k.kid = Env.protected.kid[1]
        /\ k.x # None
        /\ Derives(k.x[1], KidId[1])
        /\ SignedBy(Env, k.x[1])

\* C14: the result of decoding is the first failure in the order
\* verification, payload presence, payload decoding, from, to, and the
\* message when there is none; an envelope with a non-anonymous kid that no
\* embedded key signed is rejected with CouldNotVerifySignature whatever its
\* payload and the expected recipient are; InternalServerError is returned
\* only for an authentic or anonymous envelope whose payload is present and
\* does not decode.
C14_FirstFailureOnly ==
    Decoded =>
        /\ FirstFailure = "none" => (Res.ok /\ Res.msg = Carried)
        /\ FirstFailure # "none" =>
              (~Res.ok /\ Res.msg = None /\ Res.err[1].code.name = FirstFailure)
        /\ (HasKidId /\ KidId[1].tag # "anonymous" /\ InvalidSignature) =>
              (~Res.ok /\ Res.err = Some(could_not_verify_signature))
        /\ (~Res.ok /\ Res.err[1].code.name = "InternalServerError") =>
              /\ HasKidId
              /\ KidId[1].tag = "anonymous" \/ Authentic
              /\ Env.payload # None
              /\ Carried = None

\* C14: an envelope with a non-anonymous kid, a signature no embedded key
\* made, and a payload that does not decode has been decoded for an
\* expected recipient.
C14_Witness ==
    /\ Decoded /\ HasKidId /\ KidId[1].tag # "anonymous"
    /\ Env.signature # None /\ InvalidSignature
    /\ Env.payload # None /\ Carried = None
    /\ expected # None
    /\ Res.err = Some(could_not_verify_signature)

====
